---- MODULE Spec2Model ----
(***************************************************************************)
(* Jarvis chat relay: the session and query orchestrator (process_query,   *)
(* the idle sweeper, the retry button) of bot.py (v1.0.69) and of          *)
(* "bot 2.py" (v1.0.70, src/unnamed/part_000), and the self-update path    *)
(* (restart_handler of both, guarded_restart of threat.py).                *)
(*                                                                         *)
(* asyncio runs the handlers as cooperative tasks on one thread: the code  *)
(* between two awaits is one atomic action.                                *)
(***************************************************************************)
EXTENDS Integers, Sequences, FiniteSets, TLC

\* ------------------------------------------------------------- bounds
\* Time is counted in whole seconds. A time stamp is kept as its age, the
\* time that has passed since it was taken, which is what the code computes
\* from it (now - last, ts < cutoff); an age stops growing at the value
\* beyond which the code no longer tells ages apart.

\* process_query calls that wait in the initial state or start after it.
MaxCalls == 2
\* Exchanges (a request and its reply) identity 1 may have had before the
\* initial state: none, or this many.
WarmExchanges == 3
\* INACTIVITY_LIMIT = timedelta(hours=1) of bot.py, scaled down.
INACTIVITY_LIMIT == 2
\* datetime.timestamp() minus loop.time() at the same instant: the epoch
\* clock is ahead of the loop's monotonic clock (seconds since boot) by
\* decades, scaled down to more than INACTIVITY_LIMIT.
EpochOffset == 3

\* Identities (message.from_user.id), concurrent handler tasks, message texts,
\* upstream replies.
Users == {1, 2}
Slots == {1, 2}
Texts == {"hi", "Help me"}
Replies == {"ok"}

\* Lines of the review response that are not blank.
MaxLines == 2

\* ---------------------------------------------------- program constants
MAX_HISTORY == 6
MIN_INTERVAL == 1

\* -------------------------------------------------------------- values
NoTs == -1
NoObj == 0
ObjIds == 1..(Cardinality(Users) + Cardinality(Slots))
NoTurn == [role |-> "none", content |-> ""]
NoPrompt == [preamble |-> FALSE, lines |-> <<>>, marker |-> ""]
NoResult == [kind |-> "none", value |-> ""]
NoOutcome == [kind |-> "none", message |-> "", cls |-> "", detail |-> ""]

Turn(role, content) == [role |-> role, content |-> content]
Returned(s) == [kind |-> "return", value |-> s]
Raised(cls) == [kind |-> "raise", value |-> cls]

\* What api.chatgpt(prompt) can do: return a response object whose message
\* attribute is a text or is missing/empty, raise GenericApiError (whose text
\* may carry the overflow marker, in any letter case), or raise anything else.
Ok(m) == [kind |-> "ok", message |-> m, cls |-> "", detail |-> ""]
ApiError(d) == [kind |-> "raise", message |-> "", cls |-> "GenericApiError", detail |-> d]
OtherError(cls) == [kind |-> "raise", message |-> "", cls |-> cls, detail |-> ""]
ErrorDetails == {"Please Reduce The Context", "bad gateway"}
Outcomes ==
    {Ok(m) : m \in Replies \cup {""}}
        \cup {ApiError(d) : d \in ErrorDetails}
        \cup {OtherError("TimeoutError")}

\* str.lower() on the texts the model uses.
Lower(s) ==
    CASE s = "Please Reduce The Context" -> "please reduce the context"
      [] s = "Help me" -> "help me"
      [] s = "Jarvis Restart" -> "jarvis restart"
      [] OTHER -> s

\* Every provider error is taken for an overflow.
HasOverflowMarker_Any(detail) == TRUE

\* "reduce the context" in str(e).lower()
HasOverflowMarker(detail) == Lower(detail) \in {"please reduce the context"}

\* getattr(resp, "message", None) or str(resp)
Answer(resp) == IF resp.message # "" THEN resp.message ELSE "str(resp)"

\* The reset keeps the oldest turn.
Last_First(s) == s[1]

\* hist[-1]
Last(s) == s[Len(s)]


Max(a, b) == IF a >= b THEN a ELSE b
Min(a, b) == IF a <= b THEN a ELSE b

\* Ages beyond which the code's comparisons no longer change: MIN_INTERVAL in
\* bot 2.py (now - last < MIN_INTERVAL), and in bot.py the first age past the
\* sweeper's limit (ts < cutoff), at which the time stamp is swept.
AgeCap2 == MIN_INTERVAL
AgeCap1 == INACTIVITY_LIMIT + 1

\* A second passes for a time stamp.
Older(age, cap) == IF age = NoTs \/ age >= cap THEN age ELSE age + 1

\* ------------------------------------------------------------ variables
VARIABLES
    program,        \* which main module runs: "bot.py" or "bot2.py"
    started,        \* process_query calls counted against MaxCalls
    histories,      \* bot 2.py: user_id -> deque(maxlen=MAX_HISTORY), <<>> = no key
    USER_LAST_TS,   \* bot 2.py: user_id -> age of the stored loop time, NoTs = no key
    HISTORY,        \* bot.py: user_id -> deque object, NoObj = no key
    deques,         \* bot.py: the deque objects
    LAST_ACTIVE,    \* bot.py: user_id -> age of the stored utcnow(), NoTs = no key
    task,           \* the handler tasks: locals of process_query
    ended,          \* the process_query call the last step ended, and how; else NoCall
    lastAdmit,      \* per identity, age of the last passing of the rate limiter
    overlapped,     \* per identity, whether a call arrived while another was waiting
    update          \* the update run: the handler task of a "jarvis restart" message

vars == <<program, started, histories, USER_LAST_TS, HISTORY, deques,
          LAST_ACTIVE, task, ended, lastAdmit, overlapped, update>>

bot2State == <<histories, USER_LAST_TS>>
botState == <<HISTORY, deques, LAST_ACTIVE>>

\* now: the age of the local now (now_ts), the time since the call arrived;
\* wait: what is left of the sleep of the rate limiter.
IdleTask ==
    [pc |-> "idle", user_id |-> 0, text |-> "", now |-> NoTs, wait |-> 0,
     hist |-> NoObj, prompt |-> NoPrompt, last_msg |-> NoTurn, upstream |-> 0,
     first |-> NoOutcome]

NoCall ==
    [user_id |-> 0, last_msg |-> NoTurn, upstream |-> 0,
     first |-> NoOutcome, second |-> NoOutcome, result |-> NoResult]

\* process_query returns or raises: what the call did, as its caller sees it.
Ended(t, second, result) ==
    [user_id |-> t.user_id, last_msg |-> t.last_msg, upstream |-> t.upstream,
     first |-> t.first, second |-> second, result |-> result]

\* ts <= cutoff.
Stale_AtLimit(u) == LAST_ACTIVE[u] # NoTs /\ LAST_ACTIVE[u] >= INACTIVITY_LIMIT

\* bot.py line 89: ts < cutoff, with cutoff = datetime.utcnow() - INACTIVITY_LIMIT.
Stale(u) == LAST_ACTIVE[u] # NoTs /\ LAST_ACTIVE[u] > INACTIVITY_LIMIT

\* A second passes: every time stamp is a second older. The sweeper of bot.py
\* wakes every 600 s, far more often than INACTIVITY_LIMIT passes: a stale
\* time stamp is swept before it grows older still.
Tick ==
    /\ \A u \in Users : ~Stale(u)
    /\ USER_LAST_TS' = [u \in Users |-> Older(USER_LAST_TS[u], AgeCap2)]
    /\ LAST_ACTIVE' = [u \in Users |-> Older(LAST_ACTIVE[u], AgeCap1)]
    /\ lastAdmit' = [u \in Users |-> Older(lastAdmit[u], MIN_INTERVAL)]
    /\ task' = [c \in Slots |->
            IF task[c].pc = "sleeping"
            THEN [task[c] EXCEPT !.now = Older(@, AgeCap2), !.wait = Max(@ - 1, 0)]
            ELSE task[c]]
    /\ <<USER_LAST_TS', LAST_ACTIVE', lastAdmit', task'>> #
            <<USER_LAST_TS, LAST_ACTIVE, lastAdmit, task>>
    /\ ended' = NoCall
    /\ UNCHANGED <<update, program, started, histories, HISTORY, deques, overlapped>>

\* The dispatcher starts a handler task in a free slot.
FreeSlot(c) == task[c].pc = "idle" /\ \A d \in Slots : d < c => task[d].pc # "idle"

\* Whether another task of the same identity is waiting in the rate limiter.
OthersWaiting(c, u) ==
    \E d \in Slots \ {c} : task[d].user_id = u /\ task[d].pc = "sleeping"

\* ------------------------------------------------ bot 2.py: process_query
\* deque(maxlen=MAX_HISTORY).append: a full deque drops its left end.
DequeAppend(h, t) ==
    IF Len(h) >= MAX_HISTORY THEN Tail(h) \o <<t>> ELSE h \o <<t>>

\* m['role'].capitalize()
Capitalize(role) ==
    CASE role = "user" -> "User"
      [] role = "bot" -> "Bot"
      [] OTHER -> role

\* "\n".join(f"{m['role'].capitalize()}: {m['content']}" for m in hist) + "\nJarvis:"
Prompt2(h) ==
    [preamble |-> FALSE,
     lines |-> [i \in 1..Len(h) |-> <<Capitalize(h[i].role), h[i].content>>],
     marker |-> "Jarvis:"]

\* f"User: {last_msg['content']}\nJarvis:"
RetryPrompt2(last_msg) ==
    [preamble |-> FALSE, lines |-> <<<<"User", last_msg.content>>>>, marker |-> "Jarvis:"]

\* Lines 54-55: now - last, with last = USER_LAST_TS.get(user_id, 0). Without a
\* key it is loop.time() itself, the time since boot: MIN_INTERVAL or more.
Elapsed2(u) == IF USER_LAST_TS[u] = NoTs THEN AgeCap2 ELSE USER_LAST_TS[u]

\* Lines 56-57: the wait the rate limiter asks for.
Wait2(elapsed) ==
    IF elapsed < MIN_INTERVAL THEN MIN_INTERVAL - elapsed ELSE 0

\* Line 58: USER_LAST_TS[user_id] = now, the loop time read on arrival.
Stamp2(t) == Min(t.now, AgeCap2)

\* Lines 58-62, up to the await of the first upstream call.
Admit2(c, t) ==
    LET u == t.user_id
        h == DequeAppend(histories[u], Turn("user", t.text))
    IN  /\ USER_LAST_TS' = [USER_LAST_TS EXCEPT ![u] = Stamp2(t)]
        /\ histories' = [histories EXCEPT ![u] = h]
        /\ lastAdmit' = [lastAdmit EXCEPT ![u] = 0]
        /\ task' = [task EXCEPT ![c] =
                [t EXCEPT !.pc = "call1", !.now = NoTs, !.wait = 0,
                          !.prompt = Prompt2(h)]]

\* chat_handler calls process_query(user_id, text): lines 54-57.
Begin2(c, u, text) ==
    /\ program = "bot2.py"
    /\ FreeSlot(c)
    /\ started < MaxCalls
    /\ started' = started + 1
    /\ overlapped' = [overlapped EXCEPT ![u] = @ \/ OthersWaiting(c, u)]
    /\ LET w == Wait2(Elapsed2(u))
           t == [IdleTask EXCEPT !.user_id = u, !.text = text, !.now = 0, !.wait = w]
       IN  IF w > 0
           THEN /\ task' = [task EXCEPT ![c] = [t EXCEPT !.pc = "sleeping"]]
                /\ UNCHANGED <<histories, USER_LAST_TS, lastAdmit>>
           ELSE Admit2(c, t)
    /\ ended' = NoCall
    /\ UNCHANGED <<update, program, botState>>

\* asyncio.sleep(MIN_INTERVAL - (now - last)) returns: lines 58-62.
Wake2(c) ==
    /\ program = "bot2.py"
    /\ task[c].pc = "sleeping"
    /\ task[c].wait = 0
    /\ Admit2(c, task[c])
    /\ ended' = NoCall
    /\ UNCHANGED <<update, program, started, botState, overlapped>>

\* The first api.chatgpt(prompt) ends: lines 64-80.
Upstream2First(c, out) ==
    /\ program = "bot2.py"
    /\ task[c].pc = "call1"
    /\ LET t == [task[c] EXCEPT !.upstream = 1, !.first = out, !.prompt = NoPrompt]
           u == t.user_id
           hist == histories[u]
       IN  IF out.kind = "ok"
           THEN /\ histories' = [histories EXCEPT ![u] = DequeAppend(hist, Turn("bot", Answer(out)))]
                /\ task' = [task EXCEPT ![c] = IdleTask]
                /\ ended' = Ended(t, NoOutcome, Returned(Answer(out)))
           ELSE IF out.cls = "GenericApiError"
           THEN IF HasOverflowMarker(out.detail) /\ hist # <<>>
                THEN /\ histories' = [histories EXCEPT ![u] = <<Last(hist)>>]
                     /\ task' = [task EXCEPT ![c] =
                            [t EXCEPT !.pc = "call2", !.last_msg = Last(hist),
                                      !.prompt = RetryPrompt2(Last(hist))]]
                     /\ ended' = NoCall
                ELSE /\ task' = [task EXCEPT ![c] = IdleTask]
                     /\ ended' = Ended(t, NoOutcome,
                            Returned("AI service error, please try again later."))
                     /\ UNCHANGED histories
           ELSE /\ task' = [task EXCEPT ![c] = IdleTask]
                /\ ended' = Ended(t, NoOutcome, Returned("Unexpected server error."))
                /\ UNCHANGED histories
    /\ UNCHANGED <<update, program, started, USER_LAST_TS, botState, lastAdmit, overlapped>>

\* The retry api.chatgpt(...) of line 70 ends. It runs inside the except
\* clause of line 66: what it raises leaves process_query.
Upstream2Retry(c, out) ==
    /\ program = "bot2.py"
    /\ task[c].pc = "call2"
    /\ LET t == [task[c] EXCEPT !.upstream = 2]
           u == t.user_id
       IN  /\ task' = [task EXCEPT ![c] = IdleTask]
           /\ IF out.kind = "ok"
              THEN /\ histories' = [histories EXCEPT ![u] =
                           DequeAppend(histories[u], Turn("bot", Answer(out)))]
                   /\ ended' = Ended(t, out, Returned(Answer(out)))
              ELSE /\ ended' = Ended(t, out, Raised(out.cls))
                   /\ UNCHANGED histories
    /\ UNCHANGED <<update, program, started, USER_LAST_TS, botState, lastAdmit, overlapped>>

\* ---------------------------------------------------- bot.py: process_query
\* The deque objects in use: bound in HISTORY or held by a task in hist.
InUse(H, tk) == {H[u] : u \in Users} \cup {tk[c].hist : c \in Slots}

\* defaultdict(lambda: deque()): HISTORY[user_id] makes a new deque for a new key.
NewObj ==
    CHOOSE o \in ObjIds :
        /\ o \notin InUse(HISTORY, task)
        /\ \A p \in ObjIds : p \notin InUse(HISTORY, task) => o <= p

\* A deque nothing refers to is garbage.
Collect(dq, H, tk) == [o \in ObjIds |-> IF o \in InUse(H, tk) THEN dq[o] ELSE <<>>]

\* An append that a full history refuses.
UserAppend_DropNew(h, t) == IF Len(h) >= MAX_HISTORY THEN h ELSE h \o <<t>>

\* Lines 106-108: append, then drop the left end when over MAX_HISTORY.
UserAppend(h, t) ==
    LET g == h \o <<t>> IN IF Len(g) > MAX_HISTORY THEN Tail(g) ELSE g

\* Line 148: hist.append on a deque() without maxlen.
BotAppend(h, t) == h \o <<t>>

\* Line 111: any(kw in text.lower() for kw in ("help", "what can you do", "how to use"))
IsHelp(text) == Lower(text) \in {"help me"}

\* Lines 112-119.
HelpText == "Jarvis Help"

\* Lines 122-129.
Prompt1(h) ==
    [preamble |-> TRUE,
     lines |-> [i \in 1..Len(h) |->
                    <<IF h[i].role = "user" THEN "Master" ELSE "Jarvis", h[i].content>>],
     marker |-> "Jarvis:"]

\* Line 138: f"Master: {last_msg['content']}\nJarvis:"
RetryPrompt1(last_msg) ==
    [preamble |-> FALSE, lines |-> <<<<"Master", last_msg.content>>>>, marker |-> "Jarvis:"]

\* Lines 98-100: now_ts - last_ts, with now_ts = loop.time(), counted from
\* boot, and last_ts = LAST_ACTIVE.get(user_id, datetime.utcnow()).timestamp(),
\* counted from the epoch.
Elapsed1(u) == (IF LAST_ACTIVE[u] = NoTs THEN 0 ELSE LAST_ACTIVE[u]) - EpochOffset

\* Lines 100-101: the wait the rate limiter asks for.
Wait1(elapsed) ==
    IF elapsed < MIN_INTERVAL THEN MIN_INTERVAL - elapsed ELSE 0

\* Lines 102-129, up to the return of the help text or the await of the
\* first upstream call.
Admit1(c, t) ==
    LET u == t.user_id
        obj == IF HISTORY[u] = NoObj THEN NewObj ELSE HISTORY[u]
        h == UserAppend(deques[obj], Turn("user", t.text))
        H == [HISTORY EXCEPT ![u] = obj]
    IN  /\ LAST_ACTIVE' = [LAST_ACTIVE EXCEPT ![u] = 0]
        /\ HISTORY' = H
        /\ lastAdmit' = [lastAdmit EXCEPT ![u] = 0]
        /\ IF IsHelp(t.text)
           THEN /\ task' = [task EXCEPT ![c] = IdleTask]
                /\ deques' = Collect([deques EXCEPT ![obj] = h], H, task')
                /\ ended' = Ended(t, NoOutcome, Returned(HelpText))
           ELSE /\ task' = [task EXCEPT ![c] =
                        [t EXCEPT !.pc = "call1", !.now = NoTs, !.wait = 0,
                                  !.hist = obj, !.prompt = Prompt1(h)]]
                /\ deques' = [deques EXCEPT ![obj] = h]
                /\ ended' = NoCall

\* process_query(user_id, text) is called: lines 98-101.
Enter1(c, u, text) ==
    /\ FreeSlot(c)
    /\ started < MaxCalls
    /\ started' = started + 1
    /\ overlapped' = [overlapped EXCEPT ![u] = @ \/ OthersWaiting(c, u)]
    /\ LET w == Wait1(Elapsed1(u))
           t == [IdleTask EXCEPT !.user_id = u, !.text = text, !.now = 0, !.wait = w]
       IN  IF w > 0
           THEN /\ task' = [task EXCEPT ![c] = [t EXCEPT !.pc = "sleeping"]]
                /\ ended' = NoCall
                /\ UNCHANGED <<botState, lastAdmit>>
           ELSE Admit1(c, t)
    /\ UNCHANGED <<update, program, bot2State>>

\* chat_handler (lines 210-219) calls process_query.
Begin1(c, u, text) ==
    /\ program = "bot.py"
    /\ Enter1(c, u, text)

\* asyncio.sleep(MIN_INTERVAL - (now_ts - last_ts)) returns: lines 102-129.
Wake1(c) ==
    /\ program = "bot.py"
    /\ task[c].pc = "sleeping"
    /\ task[c].wait = 0
    /\ Admit1(c, task[c])
    /\ UNCHANGED <<update, program, started, bot2State, overlapped>>

\* The first api.chatgpt(prompt) ends: lines 132-149.
Upstream1First(c, out) ==
    /\ program = "bot.py"
    /\ task[c].pc = "call1"
    /\ LET t == [task[c] EXCEPT !.upstream = 1, !.first = out, !.prompt = NoPrompt]
           obj == t.hist
           hist == deques[obj]
       IN  IF out.kind = "ok"
           THEN /\ task' = [task EXCEPT ![c] = IdleTask]
                /\ deques' = Collect([deques EXCEPT ![obj] =
                        BotAppend(hist, Turn("bot", Answer(out)))], HISTORY, task')
                /\ ended' = Ended(t, NoOutcome, Returned(Answer(out)))
           ELSE IF out.cls = "GenericApiError"
           THEN IF HasOverflowMarker(out.detail) /\ hist # <<>>
                THEN /\ deques' = [deques EXCEPT ![obj] = <<Last(hist)>>]
                     /\ task' = [task EXCEPT ![c] =
                            [t EXCEPT !.pc = "call2", !.last_msg = Last(hist),
                                      !.prompt = RetryPrompt1(Last(hist))]]
                     /\ ended' = NoCall
                ELSE /\ task' = [task EXCEPT ![c] = IdleTask]
                     /\ deques' = Collect(deques, HISTORY, task')
                     /\ ended' = Ended(t, NoOutcome,
                            Returned("Master, AI service error, please try again."))
           ELSE /\ task' = [task EXCEPT ![c] = IdleTask]
                /\ deques' = Collect(deques, HISTORY, task')
                /\ ended' = Ended(t, NoOutcome,
                        Returned("Master, something went wrong: type(e).__name__"))
    /\ UNCHANGED <<update, program, started, bot2State, HISTORY, LAST_ACTIVE, lastAdmit,
                   overlapped>>

\* A retry that is retried when it overflows again.
Upstream1Retry_Loop(c, out) ==
    /\ program = "bot.py"
    /\ task[c].pc = "call2"
    /\ LET t == [task[c] EXCEPT !.upstream = @ + 1]
           obj == t.hist
       IN  IF out.kind = "ok"
           THEN /\ task' = [task EXCEPT ![c] = IdleTask]
                /\ deques' = Collect([deques EXCEPT ![obj] =
                        BotAppend(deques[obj], Turn("bot", Answer(out)))], HISTORY, task')
                /\ ended' = Ended(t, out, Returned(Answer(out)))
           ELSE IF out.cls = "GenericApiError" /\ HasOverflowMarker(out.detail)
           THEN /\ task' = [task EXCEPT ![c] = t]
                /\ ended' = NoCall
                /\ UNCHANGED deques
           ELSE /\ task' = [task EXCEPT ![c] = IdleTask]
                /\ deques' = Collect(deques, HISTORY, task')
                /\ ended' = Ended(t, out, Raised(out.cls))
    /\ UNCHANGED <<update, program, started, bot2State, HISTORY, LAST_ACTIVE, lastAdmit,
                   overlapped>>

\* The retry api.chatgpt(retry) of line 139 ends. It runs inside the except
\* clause of line 134: what it raises leaves process_query.
Upstream1Retry(c, out) ==
    /\ program = "bot.py"
    /\ task[c].pc = "call2"
    /\ LET t == [task[c] EXCEPT !.upstream = 2]
           obj == t.hist
       IN  /\ task' = [task EXCEPT ![c] = IdleTask]
           /\ IF out.kind = "ok"
              THEN /\ deques' = Collect([deques EXCEPT ![obj] =
                           BotAppend(deques[obj], Turn("bot", Answer(out)))], HISTORY, task')
                   /\ ended' = Ended(t, out, Returned(Answer(out)))
              ELSE /\ deques' = Collect(deques, HISTORY, task')
                   /\ ended' = Ended(t, out, Raised(out.cls))
    /\ UNCHANGED <<update, program, started, bot2State, HISTORY, LAST_ACTIVE, lastAdmit,
                   overlapped>>

\* Lines 229-235: the last user message of the identity's history, if any.
UserTurns(h) == {i \in 1..Len(h) : h[i].role = "user"}
LastUser(h) == h[CHOOSE i \in UserTurns(h) : \A j \in UserTurns(h) : j <= i]

\* A Retry button that reads HISTORY[user_id]: the defaultdict makes an entry
\* for an identity that has none.
feedback_retry_Subscript(c, u) ==
    /\ program = "bot.py"
    /\ IF HISTORY[u] = NoObj
       THEN /\ HISTORY' = [HISTORY EXCEPT ![u] = NewObj]
            /\ ended' = NoCall
            /\ UNCHANGED <<update, program, started, bot2State, deques, LAST_ACTIVE, task,
                           lastAdmit, overlapped>>
       ELSE /\ UserTurns(deques[HISTORY[u]]) # {}
            /\ Enter1(c, u, LastUser(deques[HISTORY[u]]).content)

\* Lines 225-243: the Retry button re-runs the identity's last user message.
feedback_retry(c, u) ==
    /\ program = "bot.py"
    /\ HISTORY[u] # NoObj
    /\ UserTurns(deques[HISTORY[u]]) # {}
    /\ Enter1(c, u, LastUser(deques[HISTORY[u]]).content)

\* A pass that pops LAST_ACTIVE and empties the deque where it is.
clean_inactive_users_ClearsInPlace ==
    /\ program = "bot.py"
    /\ \E u \in Users : Stale(u)
    /\ LAST_ACTIVE' = [u \in Users |-> IF Stale(u) THEN NoTs ELSE LAST_ACTIVE[u]]
    /\ deques' = [o \in ObjIds |->
            IF \E u \in Users : Stale(u) /\ HISTORY[u] = o THEN <<>> ELSE deques[o]]
    /\ ended' = NoCall
    /\ UNCHANGED <<update, program, started, bot2State, HISTORY, task, lastAdmit,
                   overlapped>>

\* A pass that pops LAST_ACTIVE and leaves HISTORY.
clean_inactive_users_KeepsHistory ==
    /\ program = "bot.py"
    /\ \E u \in Users : Stale(u)
    /\ LAST_ACTIVE' = [u \in Users |-> IF Stale(u) THEN NoTs ELSE LAST_ACTIVE[u]]
    /\ ended' = NoCall
    /\ UNCHANGED <<update, program, started, bot2State, HISTORY, deques, task, lastAdmit,
                   overlapped>>

\* Lines 87-92: one pass of clean_inactive_users (every 600 s).
clean_inactive_users ==
    /\ program = "bot.py"
    /\ \E u \in Users : Stale(u)
    /\ HISTORY' = [u \in Users |-> IF Stale(u) THEN NoObj ELSE HISTORY[u]]
    /\ LAST_ACTIVE' = [u \in Users |-> IF Stale(u) THEN NoTs ELSE LAST_ACTIVE[u]]
    /\ deques' = Collect(deques, HISTORY', task)
    /\ ended' = NoCall
    /\ UNCHANGED <<update, program, started, bot2State, task, lastAdmit, overlapped>>

\* ------------------------------------------------------- the update run
\* Lines of a review response that are not blank: whether the line starts
\* with a bullet (re.match(r"^(\-|\*|\d+\.)\s+", l)) and whether it holds the
\* words "no issues" (re.search(r"\bno issues\b", text, re.I)).
AiLines == [bullet : BOOLEAN, marker : BOOLEAN]
AiTexts == UNION {[1..n -> AiLines] : n \in 0..MaxLines}

\* What api.chatgpt(prompt) of the review does: it raises, or answers with a
\* message text, or answers with a message that is None.
AiResponses ==
    {[kind |-> "raise", lines |-> <<>>], [kind |-> "none", lines |-> <<>>]}
        \cup {[kind |-> "text", lines |-> t] : t \in AiTexts}

\* A review in which the no-issues marker outweighs the bullet lines.
ai_health_check_MarkerWins(resp) ==
    IF resp.kind = "raise" THEN <<"AI health-check failed: e">>
    ELSE LET issues == SelectSeq(resp.lines, LAMBDA l : l.bullet)
             marker == \E i \in 1..Len(resp.lines) : resp.lines[i].marker
         IN  IF marker THEN <<>>
             ELSE IF issues # <<>> THEN issues ELSE <<resp.lines>>

\* threat.py lines 51-61: the list of issues of a review response that has a
\* text.
ai_health_check(resp) ==
    IF resp.kind = "raise" THEN <<"AI health-check failed: e">>
    ELSE LET issues == SelectSeq(resp.lines, LAMBDA l : l.bullet)
             marker == \E i \in 1..Len(resp.lines) : resp.lines[i].marker
         IN  IF issues = <<>> /\ marker THEN <<>>
             ELSE IF issues # <<>> THEN issues ELSE <<resp.lines>>

\* What flake8 does: it is not installed (subprocess.run raises
\* FileNotFoundError), or it exits with a return code and its output.
LintRuns ==
    {[installed |-> FALSE, rc |-> 0, stderr |-> "", stdout |-> ""],
     [installed |-> TRUE, rc |-> 0, stderr |-> "", stdout |-> ""],
     [installed |-> TRUE, rc |-> 1, stderr |-> "", stdout |-> "bot.py:1:1: E265"],
     [installed |-> TRUE, rc |-> 1, stderr |-> "usage", stdout |-> ""],
     [installed |-> TRUE, rc |-> 1, stderr |-> "", stdout |-> ""]}

\* Messages the dispatcher receives.
Messages == [chat : {"private", "group"}, text : {"jarvis restart", "Jarvis Restart", "hi"}]

\* The message handlers in the order of their registration. threat.py takes
\* restart_handler from the running main module (lines 26-30): the main module
\* has registered its handlers before threat.py registers guarded_restart.
Handlers == <<"restart_handler", "chat_handler", "guarded_restart">>

\* F.text.regexp(r"(?i)^jarvis restart$")
IsRestart(text) == Lower(text) = "jarvis restart"

\* The filters of the handlers.
Matches(h, msg) ==
    CASE h = "restart_handler" -> msg.chat = "private" /\ IsRestart(msg.text)
      [] h = "guarded_restart" -> msg.chat = "private" /\ IsRestart(msg.text)
      [] h = "chat_handler" ->
            /\ msg.chat = "private"
            /\ program = "bot2.py" => ~IsRestart(msg.text)
      [] OTHER -> FALSE

\* The dispatcher calls the first registered handler whose filters match.
Matching(msg) == {i \in 1..Len(Handlers) : Matches(Handlers[i], msg)}
FirstMatch(msg) ==
    IF Matching(msg) = {} THEN "none"
    ELSE Handlers[CHOOSE i \in Matching(msg) : \A j \in Matching(msg) : i <= j]

IdleUpdate ==
    [pc |-> "idle", via |-> "none", handler |-> "none", text |-> "", syntax |-> "none",
     lint |-> "none", review |-> "none", resp |-> <<>>, issues |-> <<>>,
     pull |-> "none", deps |-> "none", summary |-> "none", ran |-> <<>>, replies |-> <<>>]

Reply(kind, body) == [kind |-> kind, body |-> body]

\* restart_handler is called: bot.py line 162, bot 2.py line 93.
StartRestart(r) ==
    [r EXCEPT !.replies = @ \o <<Reply("pulling", "")>>,
              !.pc = IF program = "bot.py" THEN "r_old" ELSE "r_pull"]

\* guarded_restart is called: threat.py line 69.
StartGuarded(r) ==
    [r EXCEPT !.replies = @ \o <<Reply("checks running", "")>>, !.pc = "g_checks"]

\* A message arrives: the dispatcher calls the first matching handler.
Dispatch(msg) ==
    /\ update.pc = "idle"
    /\ LET h == FirstMatch(msg)
           r == [update EXCEPT !.via = "dispatch", !.handler = h, !.text = msg.text]
       IN  update' =
               CASE h = "restart_handler" -> StartRestart(r)
                 [] h = "guarded_restart" -> StartGuarded(r)
                 [] OTHER -> [r EXCEPT !.pc = "other"]
    /\ UNCHANGED <<program, started, bot2State, botState, task, ended, lastAdmit,
                   overlapped>>

\* guarded_restart(msg) is called with a message that passes its filters.
CallGuarded(msg) ==
    /\ update.pc = "idle"
    /\ Matches("guarded_restart", msg)
    /\ update' = StartGuarded([update EXCEPT !.via = "call", !.handler = "guarded_restart",
                                                  !.text = msg.text])
    /\ UNCHANGED <<program, started, bot2State, botState, task, ended, lastAdmit,
                   overlapped>>

\* A lint check that lets every file pass.
LintFailed_Never(flake8) == FALSE

\* threat.py line 86: lint_rc != 0
LintFailed(flake8) == flake8.rc # 0

\* threat.py lines 71-105: the syntax check, the lint check, reading the files.
GuardedChecks(compiles, flake8) ==
    /\ update.pc = "g_checks"
    /\ update' =
        IF ~compiles
        THEN [update EXCEPT !.syntax = "error", !.ran = @ \o <<"py_compile">>,
                !.replies = @ \o <<Reply("syntax error", "traceback")>>,
                !.pc = "returned"]
        ELSE IF ~flake8.installed
        THEN [update EXCEPT !.syntax = "ok", !.ran = @ \o <<"py_compile", "flake8">>,
                !.pc = "raised"]
        ELSE IF LintFailed(flake8)
        THEN [update EXCEPT !.syntax = "ok", !.lint = "errors",
                !.ran = @ \o (IF flake8.stderr # ""
                              THEN <<"py_compile", "flake8", "flake8">>
                              ELSE <<"py_compile", "flake8", "flake8", "flake8">>),
                !.replies = @ \o <<Reply("lint errors",
                    IF flake8.stderr # "" THEN flake8.stderr ELSE flake8.stdout)>>,
                !.pc = "returned"]
        ELSE [update EXCEPT !.syntax = "ok",
                !.lint = IF flake8.rc = 0 THEN "ok" ELSE "errors",
                !.ran = @ \o <<"py_compile", "flake8", "chatgpt">>, !.pc = "g_review"]
    /\ UNCHANGED <<program, started, bot2State, botState, task, ended, lastAdmit,
                   overlapped>>

\* threat.py lines 52-61 and 108-118: the review call ends.
GuardedReview(resp) ==
    /\ update.pc = "g_review"
    /\ update' =
        IF resp.kind = "none"
        THEN [update EXCEPT !.review = "none text", !.resp = <<resp>>, !.pc = "raised"]
        ELSE LET issues == ai_health_check(resp)
             IN  IF issues # <<>>
                 THEN [update EXCEPT !.review = "issues", !.resp = <<resp>>,
                         !.issues = issues,
                         !.replies = @ \o <<Reply("issues", issues)>>, !.pc = "returned"]
                 ELSE StartRestart([update EXCEPT !.review = "clean", !.resp = <<resp>>,
                         !.replies = @ \o <<Reply("all clear", "")>>])
    /\ UNCHANGED <<program, started, bot2State, botState, task, ended, lastAdmit,
                   overlapped>>

\* bot.py lines 163-168: asyncio.create_subprocess_exec(...) is a coroutine
\* object, and .communicate() on it raises AttributeError.
RestartOldHead ==
    /\ program = "bot.py"
    /\ update.pc = "r_old"
    /\ update' = [update EXCEPT !.pc = "raised"]
    /\ UNCHANGED <<program, started, bot2State, botState, task, ended, lastAdmit,
                   overlapped>>

\* The pull's return code is not looked at.
PullFailed_Never(rc) == FALSE

\* bot 2.py line 98: pull.returncode != 0.
PullFailed(rc) == rc # 0

\* bot 2.py lines 97-101: git pull.
RestartPull(rc) ==
    /\ program = "bot2.py"
    /\ update.pc = "r_pull"
    /\ update' =
        IF PullFailed(rc)
        THEN [update EXCEPT !.ran = @ \o <<"git pull">>, !.pull = "failed",
                !.replies = @ \o <<Reply("pull failed", "stderr")>>, !.pc = "returned"]
        ELSE [update EXCEPT !.ran = @ \o <<"git pull">>,
                !.pull = IF rc # 0 THEN "failed" ELSE "ok",
                !.replies = @ \o <<Reply("pull done", "stdout"), Reply("installing", "")>>,
                !.pc = "r_deps"]
    /\ UNCHANGED <<program, started, bot2State, botState, task, ended, lastAdmit,
                   overlapped>>

\* The install's return code is not looked at.
DepsFailed_Never(rc) == FALSE

\* bot 2.py line 103: deps.returncode != 0.
DepsFailed(rc) == rc # 0

\* bot 2.py lines 102-106: pip3 install -r requirements.txt.
RestartDeps(rc) ==
    /\ program = "bot2.py"
    /\ update.pc = "r_deps"
    /\ update' =
        IF DepsFailed(rc)
        THEN [update EXCEPT !.ran = @ \o <<"pip install">>, !.deps = "failed",
                !.replies = @ \o <<Reply("install failed", "stderr")>>, !.pc = "returned"]
        ELSE [update EXCEPT !.ran = @ \o <<"pip install">>,
                !.deps = IF rc # 0 THEN "failed" ELSE "ok",
                !.replies = @ \o <<Reply("installed", ""), Reply("upgrading", "")>>,
                !.pc = "r_upgrade"]
    /\ UNCHANGED <<program, started, bot2State, botState, task, ended, lastAdmit,
                   overlapped>>

\* The diff's output without the placeholder.
Summary_Raw(stat) == stat

\* bot 2.py line 114: run(["git","diff","--stat", old, new]).stdout.strip() or
\* "No changes"; a git diff that fails prints nothing on stdout.
Summary(stat) == IF stat # "" THEN stat ELSE "No changes"

\* A summary after which the sessions are left open.
RestartSummary_SkipsShutdown(rc, stat) ==
    /\ program = "bot2.py"
    /\ update.pc = "r_upgrade"
    /\ update' = [update EXCEPT
            !.ran = @ \o <<"pip upgrade", "git rev-parse", "git rev-parse", "git diff">>,
            !.replies = @ \o <<Reply(IF rc # 0 THEN "upgrade failed" ELSE "upgraded",
                                     IF rc # 0 THEN "stderr" ELSE ""),
                               Reply("changes", Summary(stat)),
                               Reply("restarting", "")>>,
            !.summary = IF stat # "" THEN "diff" ELSE "empty",
            !.pc = "r_exec"]
    /\ UNCHANGED <<program, started, bot2State, botState, task, ended, lastAdmit,
                   overlapped>>

\* bot 2.py lines 107-116: pip3 install --upgrade safoneapi, the change summary.
RestartSummary(rc, stat) ==
    /\ program = "bot2.py"
    /\ update.pc = "r_upgrade"
    /\ update' = [update EXCEPT
            !.ran = @ \o <<"pip upgrade", "git rev-parse", "git rev-parse", "git diff">>,
            !.replies = @ \o <<Reply(IF rc # 0 THEN "upgrade failed" ELSE "upgraded",
                                     IF rc # 0 THEN "stderr" ELSE ""),
                               Reply("changes", Summary(stat)),
                               Reply("restarting", "")>>,
            !.summary = IF stat # "" THEN "diff" ELSE "empty",
            !.pc = "r_shutdown"]
    /\ UNCHANGED <<program, started, bot2State, botState, task, ended, lastAdmit,
                   overlapped>>

\* shutdown(): bot.py lines 71-76, called at bot 2.py line 117.
shutdown ==
    /\ update.pc = "r_shutdown"
    /\ update' = [update EXCEPT !.ran = @ \o <<"shutdown">>, !.pc = "r_exec"]
    /\ UNCHANGED <<program, started, bot2State, botState, task, ended, lastAdmit,
                   overlapped>>

\* do_restart(): bot.py lines 78-81, called at bot 2.py line 118.
do_restart ==
    /\ update.pc = "r_exec"
    /\ update' = [update EXCEPT !.ran = @ \o <<"execv">>, !.pc = "replaced"]
    /\ UNCHANGED <<program, started, bot2State, botState, task, ended, lastAdmit,
                   overlapped>>

\* ------------------------------------------------------- the initial state
\* The history of an identity after n exchanges "hi" -> "ok", as the
\* program's own appends leave it.
RECURSIVE Exchanges1(_)
Exchanges1(n) ==
    IF n = 0 THEN <<>>
    ELSE BotAppend(UserAppend(Exchanges1(n - 1), Turn("user", "hi")), Turn("bot", "ok"))

RECURSIVE Exchanges2(_)
Exchanges2(n) ==
    IF n = 0 THEN <<>>
    ELSE DequeAppend(DequeAppend(Exchanges2(n - 1), Turn("user", "hi")), Turn("bot", "ok"))

\* The process is running: identity 1 is new, or has just had its
\* WarmExchanges-th exchange. In bot.py a call waits in the rate limiter for
\* longer than INACTIVITY_LIMIT and finds the history swept unless another
\* call of the identity was admitted meanwhile: the exchanges of an identity
\* pile up only when its calls, sent a second apart, wait together, and the
\* next of them may still be waiting.
Booted(warm, waiting) ==
    LET on1 == program = "bot.py"
        on2 == program = "bot2.py"
        ts == [u \in Users |-> IF u \in warm THEN 0 ELSE NoTs]
        next == [IdleTask EXCEPT !.pc = "sleeping", !.user_id = 1, !.text = "hi",
                                 !.now = AgeCap2, !.wait = MIN_INTERVAL]
    IN  /\ program \in {"bot.py", "bot2.py"}
        /\ task = [c \in Slots |->
                IF on1 /\ 1 \in warm /\ waiting /\ c = 1 THEN next ELSE IdleTask]
        /\ started = Cardinality({c \in Slots : task[c].pc # "idle"})
        /\ ended = NoCall
        /\ overlapped = [u \in Users |-> on1 /\ u \in warm]
        /\ update = IdleUpdate
        /\ lastAdmit = ts
        /\ histories = [u \in Users |->
                IF on2 /\ u \in warm THEN Exchanges2(WarmExchanges) ELSE <<>>]
        /\ USER_LAST_TS = [u \in Users |-> IF on2 THEN ts[u] ELSE NoTs]
        /\ HISTORY = [u \in Users |-> IF on1 /\ u \in warm THEN u ELSE NoObj]
        /\ deques = [o \in ObjIds |->
                IF on1 /\ o \in warm THEN Exchanges1(WarmExchanges) ELSE <<>>]
        /\ LAST_ACTIVE = [u \in Users |-> IF on1 THEN ts[u] ELSE NoTs]

Init == \E warm \in {{}, {1}}, waiting \in BOOLEAN : Booted(warm, waiting)

Next ==
    \/ Tick
    \/ \E c \in Slots, u \in Users, text \in Texts : Begin2(c, u, text)
    \/ \E c \in Slots : Wake2(c)
    \/ \E c \in Slots, out \in Outcomes : Upstream2First(c, out)
    \/ \E c \in Slots, out \in Outcomes : Upstream2Retry(c, out)
    \/ \E c \in Slots, u \in Users, text \in Texts : Begin1(c, u, text)
    \/ \E c \in Slots : Wake1(c)
    \/ \E c \in Slots, out \in Outcomes : Upstream1First(c, out)
    \/ \E c \in Slots, out \in Outcomes : Upstream1Retry(c, out)
    \/ \E c \in Slots, u \in Users : feedback_retry(c, u)
    \/ clean_inactive_users

Spec == Init /\ [][Next]_vars

\* bot.py lines 246-253: main() starts clean_inactive_users as a task of the
\* running loop, which wakes it every 600 s; and time passes.
SpecFair == Spec /\ WF_vars(Tick) /\ WF_vars(clean_inactive_users)

\* The update run.
NextUpdate ==
    \/ \E msg \in Messages : Dispatch(msg)
    \/ \E msg \in Messages : CallGuarded(msg)
    \/ \E compiles \in BOOLEAN, flake8 \in LintRuns : GuardedChecks(compiles, flake8)
    \/ \E resp \in AiResponses : GuardedReview(resp)
    \/ RestartOldHead
    \/ \E rc \in {0, 1} : RestartPull(rc)
    \/ \E rc \in {0, 1} : RestartDeps(rc)
    \/ \E rc \in {0, 1}, stat \in {"", "1 file changed"} : RestartSummary(rc, stat)
    \/ shutdown
    \/ do_restart

SpecUpdate == Booted({}, FALSE) /\ [][NextUpdate]_vars

\* The steps of a handler that has been called. The handler is one coroutine:
\* subprocess.run blocks until the child has exited and every reply is
\* awaited, so a run that can take its next step takes it.
RunStep ==
    \/ \E compiles \in BOOLEAN, flake8 \in LintRuns : GuardedChecks(compiles, flake8)
    \/ \E resp \in AiResponses : GuardedReview(resp)
    \/ RestartOldHead
    \/ \E rc \in {0, 1} : RestartPull(rc)
    \/ \E rc \in {0, 1} : RestartDeps(rc)
    \/ \E rc \in {0, 1}, stat \in {"", "1 file changed"} : RestartSummary(rc, stat)
    \/ shutdown
    \/ do_restart

SpecUpdateFair == SpecUpdate /\ WF_vars(RunStep)

\* The tasks of the chat path run while the loop runs. Between the return of
\* shutdown() and os.execv there is no await (bot 2.py lines 117-118), and
\* os.execv replaces the process image: nothing of the old process runs
\* after it.
Alive == update.pc \notin {"r_exec", "replaced"}

\* An update run of restart_handler beside the chat path.
NextRestart ==
    \/ Alive /\ Next
    \/ \E msg \in Messages : Dispatch(msg)
    \/ RestartOldHead
    \/ \E rc \in {0, 1} : RestartPull(rc)
    \/ \E rc \in {0, 1} : RestartDeps(rc)
    \/ \E rc \in {0, 1}, stat \in {"", "1 file changed"} : RestartSummary(rc, stat)
    \/ shutdown
    \/ do_restart

SpecRestart == Booted({}, FALSE) /\ [][NextRestart]_vars

\* ------------------------------------------------------------ properties
\* The history the store holds for an identity.
Stored(u) ==
    IF program = "bot2.py" THEN histories[u]
    ELSE IF HISTORY[u] = NoObj THEN <<>> ELSE deques[HISTORY[u]]

\* The history a call works on and the label of a requester turn.
Held(c) ==
    IF program = "bot2.py" THEN histories[task[c].user_id] ELSE deques[task[c].hist]
Requester == IF program = "bot2.py" THEN "User" ELSE "Master"

\* An upstream call raised the provider's overflow error.
OverflowRaised(o) ==
    o.kind = "raise" /\ o.cls = "GenericApiError" /\ o.detail = "Please Reduce The Context"

\* The error replies process_query returns.
ErrorReplies ==
    {"AI service error, please try again later.", "Unexpected server error.",
     "Master, AI service error, please try again.",
     "Master, something went wrong: type(e).__name__"}

\* C1: in every reachable state the stored history of every identity holds
\* at most MAX_HISTORY turns.
C1_HistoryBounded == \A u \in Users : Len(Stored(u)) <= MAX_HISTORY

\* C2: when the first upstream call raised overflow and the retry fails too,
\* process_query returns an error reply; the retry's exception does not
\* leave process_query.
C2_RetryFailureReturnsReply ==
    (ended.upstream = 2 /\ ended.second.kind = "raise") =>
        (ended.result.kind = "return" /\ ended.result.value \in ErrorReplies)

\* C3: a process_query call makes at most two upstream calls; the second is
\* made only after the first raised overflow, and a call whose upstream calls
\* always raise overflow makes exactly two.
C3_AtMostTwoUpstreamCalls ==
    /\ \A c \in Slots :
        /\ task[c].upstream = IF task[c].pc = "call2" THEN 1 ELSE 0
        /\ task[c].pc = "call2" => OverflowRaised(task[c].first)
    /\ ended.upstream \in 0..2
    /\ ended.upstream = 2 <=> OverflowRaised(ended.first)
    /\ ended.upstream = 2 <=> ended.second # NoOutcome

C3_AlwaysOverflowTwoCalls ==
    /\ ended.upstream = 2
    /\ OverflowRaised(ended.first)
    /\ OverflowRaised(ended.second)

\* C4: when the first upstream call fails with anything but overflow,
\* process_query makes no retry (one upstream call) and returns an error
\* reply; it raises nothing.
C4_OtherFailureReturnsReply ==
    (ended.first.kind = "raise" /\ ~OverflowRaised(ended.first)) =>
        /\ ended.upstream = 1
        /\ ended.second = NoOutcome
        /\ ended.result.kind = "return"
        /\ ended.result.value \in ErrorReplies

C4_ProviderErrorReplied ==
    /\ ended.first.detail = "bad gateway"
    /\ ended.upstream = 1
    /\ ended.result.kind = "return"

\* C5: when the first upstream call raises overflow, the history is reset to
\* its most recent turn alone and the retry prompt is built from that turn
\* only; when the retry succeeds, process_query returns the retry's reply
\* and, the stored history still being the retained turn alone, the history
\* becomes the retained turn followed by the new responder turn.
C5_OverflowResetAndRetry ==
    [][\A c \in Slots :
        /\ (task[c].pc = "call1" /\ task'[c].pc = "call2") =>
            LET h == Held(c)
                kept == h[Len(h)]
            IN  /\ Held(c)' = <<kept>>
                /\ task'[c].last_msg = kept
                /\ task'[c].prompt =
                       [preamble |-> FALSE, lines |-> <<<<Requester, kept.content>>>>,
                        marker |-> "Jarvis:"]
        /\ (task[c].pc = "call2" /\ task'[c].pc = "idle" /\ ended'.second.kind = "ok") =>
            \A u \in {task[c].user_id}, kept \in {task[c].last_msg} :
                LET answer == Answer(ended'.second)
                    still == (program = "bot.py" => HISTORY[u] = task[c].hist)
                IN  /\ ended'.result = Returned(answer)
                    /\ (still /\ Stored(u) = <<kept>>) =>
                           Stored(u)' = <<kept, Turn("bot", answer)>>
      ]_vars

C5_RetrySucceeded ==
    /\ ended.upstream = 2
    /\ ended.second.kind = "ok"
    /\ ended.result = Returned(Answer(ended.second))
    /\ Stored(ended.user_id) = <<ended.last_msg, Turn("bot", Answer(ended.second))>>

\* The last n elements of a sequence.
KeepLast(s, n) == IF Len(s) <= n THEN s ELSE SubSeq(s, Len(s) - n + 1, Len(s))

\* C6: eviction by capacity is first in, first out: whenever the stored
\* history of an identity changes, it was emptied or reset to its last turn,
\* or one turn was appended and the result is the last MAX_HISTORY turns of
\* the old history followed by the new turn. So after k appends it holds
\* the last min(k, MAX_HISTORY) appended turns, in order.
C6_FifoEviction ==
    [][\A u \in Users :
        LET h == Stored(u)
            g == Stored(u)'
        IN  g # h =>
              \/ g = <<>>
              \/ h # <<>> /\ g = <<h[Len(h)]>>
              \/ g = KeepLast(h \o <<g[Len(g)]>>, MAX_HISTORY)
      ]_vars

\* The age of the time stamp the rate limiter keeps for an identity.
Recorded(u) == IF program = "bot2.py" THEN USER_LAST_TS[u] ELSE LAST_ACTIVE[u]

\* C7: a process_query call that arrives less than MIN_INTERVAL after the
\* identity's previous recorded request waits MIN_INTERVAL minus the elapsed
\* time, and a call that arrives MIN_INTERVAL or more after it waits 0.
C7_WaitIsRemainingInterval ==
    [][\A c \in Slots :
        (started' = started + 1 /\ FreeSlot(c)) =>
            LET u == IF task'[c].pc = "idle" THEN ended'.user_id ELSE task'[c].user_id
                wait == IF task'[c].pc = "sleeping" THEN task'[c].wait ELSE 0
            IN  Recorded(u) # NoTs =>
                    wait = IF Recorded(u) < MIN_INTERVAL
                           THEN MIN_INTERVAL - Recorded(u) ELSE 0
      ]_vars

\* C8: for an identity whose calls have not overlapped (each arrived after
\* the one before it had passed the rate limiter), a call passes the rate
\* limiter and proceeds to the upstream call at least MIN_INTERVAL after the
\* call before it did.
C8_AdmissionsSpaced ==
    [][\A c \in Slots :
        (task[c].pc \in {"idle", "sleeping"} /\ task'[c].pc = "call1") =>
            LET u == task'[c].user_id
            IN  (~overlapped'[u] /\ lastAdmit[u] # NoTs) => lastAdmit[u] >= MIN_INTERVAL
      ]_vars

\* Whether the update run has invoked an operation.
Ran(op) == \E i \in 1..Len(update.ran) : update.ran[i] = op
Mutated == Ran("git pull") \/ Ran("pip install") \/ Ran("pip upgrade")
               \/ Ran("shutdown") \/ Ran("execv")
ChecksPassed == update.syntax = "ok" /\ update.lint = "ok" /\ update.review = "clean"

\* C9: a run of guarded_restart in which the syntax check fails, the lint
\* check fails, or the review reports findings or its call fails has
\* returned with its last reply the diagnostics, and in a run of
\* guarded_restart whose checks have not all passed neither git pull nor
\* the dependency install nor shutdown nor the process replacement is invoked.
C9_AbortReportsAndMutatesNothing ==
    update.handler = "guarded_restart" =>
        /\ ~ChecksPassed => ~Mutated
        /\ update.syntax = "error" =>
            /\ update.pc = "returned"
            /\ update.replies[Len(update.replies)] = Reply("syntax error", "traceback")
        /\ update.lint = "errors" =>
            /\ update.pc = "returned"
            /\ update.replies[Len(update.replies)].kind = "lint errors"
        /\ update.review = "issues" =>
            /\ update.pc = "returned"
            /\ update.issues # <<>>
            /\ update.replies[Len(update.replies)] = Reply("issues", update.issues)

C9_LintAborted ==
    /\ update.handler = "guarded_restart"
    /\ update.lint = "errors"
    /\ update.pc = "returned"
    /\ ~Mutated

\* C10: for every "jarvis restart" message, whichever handler takes it, git
\* pull and the process replacement are invoked only in a run in which the
\* syntax check, the lint check and the review have all passed.
C10_UpdateOnlyThroughGate ==
    (Ran("git pull") \/ Ran("execv")) => ChecksPassed

\* The last reply of the update run.
LastReply == update.replies[Len(update.replies)]

\* C11: in an update run whose git pull has failed, neither the dependency
\* install nor the safoneapi upgrade nor git rev-parse nor git diff is
\* invoked, the sessions are not closed and the process is not replaced: the
\* run has returned with the pull's stderr as its last reply.
C11_PullFailureStopsRun ==
    update.pull = "failed" =>
        /\ update.pc = "returned"
        /\ Last(update.ran) = "git pull"
        /\ ~Ran("pip install") /\ ~Ran("pip upgrade")
        /\ ~Ran("git rev-parse") /\ ~Ran("git diff")
        /\ ~Ran("shutdown") /\ ~Ran("execv")
        /\ LastReply = Reply("pull failed", "stderr")

C11_PullFailed ==
    /\ update.pull = "failed"
    /\ update.pc = "returned"
    /\ LastReply.kind = "pull failed"

StageOf ==
    [op \in {"py_compile", "flake8", "chatgpt", "git pull", "pip install", "pip upgrade",
             "git rev-parse", "git diff", "shutdown", "execv"} |->
        CASE op = "py_compile" -> 1
          [] op = "flake8" -> 2
          [] op = "chatgpt" -> 3
          [] op = "git pull" -> 4
          [] op \in {"pip install", "pip upgrade"} -> 5
          [] op \in {"git rev-parse", "git diff"} -> 6
          [] OTHER -> 7]

Sent(kind) == \E i \in 1..Len(update.replies) : update.replies[i].kind = kind

\* C13: the operations of an update run are invoked in the order of their
\* stages (syntax check, lint, review, pull, dependency install, change
\* summary, restart), none after an operation of a later stage; each stage
\* is entered only after the one before it has succeeded; and the process is
\* replaced only after the change summary has been sent.
C13_StagesInForwardOrder ==
    /\ \A i, j \in 1..Len(update.ran) :
            i < j => StageOf[update.ran[i]] <= StageOf[update.ran[j]]
    /\ Ran("flake8") => update.syntax = "ok"
    /\ Ran("chatgpt") => update.lint = "ok"
    /\ Ran("git pull") => update.review = "clean"
    /\ Ran("pip install") => update.pull = "ok"
    /\ Ran("git diff") => update.deps = "ok"
    /\ Ran("shutdown") => Sent("changes")
    /\ Ran("execv") => Sent("changes")

\* C14: the review of guarded_restart is clean only for a response whose
\* text has a line with the no-issues marker and no bullet line; a response
\* with a bullet line, a response with neither bullet line nor marker, and a
\* review call that raised each give a non-empty list of issues, which is
\* the run's last reply, and the run has returned with no pull, install,
\* shutdown or process replacement.
C14_CleanOnlyWithMarkerAndNoBullet ==
    update.resp # <<>> =>
        LET resp == update.resp[1]
            bullets == \E i \in 1..Len(resp.lines) : resp.lines[i].bullet
            marker == \E i \in 1..Len(resp.lines) : resp.lines[i].marker
        IN  /\ update.review = "clean" => resp.kind = "text" /\ marker /\ ~bullets
            /\ (resp.kind = "raise" \/ (resp.kind = "text" /\ (bullets \/ ~marker))) =>
                    /\ update.review = "issues"
                    /\ update.issues # <<>>
                    /\ update.pc = "returned"
                    /\ LastReply = Reply("issues", update.issues)
                    /\ ~Mutated

C14_MarkerBesideBullet ==
    /\ update.resp # <<>>
    /\ update.resp[1].kind = "text"
    /\ \E i \in 1..Len(update.resp[1].lines) : update.resp[1].lines[i].marker
    /\ \E i \in 1..Len(update.resp[1].lines) : update.resp[1].lines[i].bullet
    /\ update.review = "issues"
    /\ update.pc = "returned"

\* C15: once git pull and the dependency install have succeeded the run
\* never ends by returning or raising; a git diff that printed nothing, as a
\* failed one does, is reported as "No changes" in the change summary; and
\* the run goes on until the process is replaced.
C15_SummaryNeverGates ==
    /\ [](update.deps = "ok" => update.pc \notin {"returned", "raised"})
    /\ [](update.summary = "empty" =>
            \E i \in 1..Len(update.replies) :
                update.replies[i] = Reply("changes", "No changes"))
    /\ (update.deps = "ok") ~> (update.pc = "replaced")

C15_ReplacedAfterEmptyDiff ==
    /\ update.summary = "empty"
    /\ update.deps = "ok"
    /\ Sent("changes")
    /\ update.pc = "replaced"

\* The replies that report a failure.
Diagnostics == {"syntax error", "lint errors", "issues", "pull failed", "install failed"}

\* C16: an update run that has ended without replacing the process, by
\* returning or by raising, has a failure report as its last reply and has
\* neither closed the sessions nor replaced the process.
C16_EndsReplacedOrDiagnosed ==
    update.pc \in {"returned", "raised"} =>
        /\ update.replies # <<>>
        /\ LastReply.kind \in Diagnostics
        /\ ~Ran("shutdown")
        /\ ~Ran("execv")

\* C17: a pass of clean_inactive_users that evicts somebody removes the
\* history and the last-activity entry of every identity whose last activity
\* is older than INACTIVITY_LIMIT, and leaves the history, its turns and the
\* last-activity entry of every other identity as they were.
C17_SweepEvictsExactlyTheIdle ==
    [][ (\E v \in Users : LAST_ACTIVE[v] # NoTs /\ LAST_ACTIVE'[v] = NoTs) =>
            \A u \in Users :
                IF LAST_ACTIVE[u] # NoTs /\ LAST_ACTIVE[u] > INACTIVITY_LIMIT
                THEN /\ HISTORY'[u] = NoObj
                     /\ LAST_ACTIVE'[u] = NoTs
                     /\ Stored(u)' = <<>>
                ELSE /\ HISTORY'[u] = HISTORY[u]
                     /\ LAST_ACTIVE'[u] = LAST_ACTIVE[u]
                     /\ Stored(u)' = Stored(u)
      ]_vars

C17_OneEvictedOneKept ==
    /\ program = "bot.py"
    /\ \E u, v \in Users :
        /\ lastAdmit[u] # NoTs /\ HISTORY[u] = NoObj /\ LAST_ACTIVE[u] = NoTs
        /\ HISTORY[v] # NoObj /\ LAST_ACTIVE[v] # NoTs /\ LAST_ACTIVE[v] > 0

\* No identity has a history or a last-activity entry.
NoSessions == \A u \in Users : Stored(u) = <<>> /\ Recorded(u) = NoTs

\* C18: the identities send a bounded number of requests, so from some time
\* on none sends a further one; from some time on no identity has a history
\* or a last-activity entry left.
C18_IdleSessionsDestroyed == <>[]NoSessions

\* C18, amended: under bot.py, which starts the sweeper, from some time on no
\* identity has a history or a last-activity entry left; under bot 2.py,
\* which has no sweeper, no step empties a history or removes a time stamp.
C18_DestroyedWhereSwept ==
    /\ program = "bot.py" => <>[]NoSessions
    /\ [][program = "bot2.py" =>
            \A u \in Users :
                /\ histories[u] # <<>> => histories'[u] # <<>>
                /\ USER_LAST_TS[u] # NoTs => USER_LAST_TS'[u] # NoTs
         ]_vars

C18_AllSweptAfterLastRequest ==
    /\ program = "bot.py"
    /\ started = MaxCalls
    /\ \A c \in Slots : task[c].pc = "idle"
    /\ \E u \in Users : lastAdmit[u] # NoTs
    /\ NoSessions

\* C19: a process_query call whose last upstream call succeeded returns; when
\* the response has a non-empty message the call returns that text and
\* appends it to the history it works on as one responder turn, and when the
\* response has none the call returns one of the error replies.
C19_ReturnsMessageOrErrorReply ==
    [][\A c \in Slots :
        (task[c].pc \in {"call1", "call2"} /\ task'[c].pc = "idle"
            /\ ended'.upstream = task[c].upstream + 1
            /\ (IF ended'.upstream = 2 THEN ended'.second ELSE ended'.first).kind = "ok") =>
            \A out \in {IF ended'.upstream = 2 THEN ended'.second ELSE ended'.first},
               u \in {task[c].user_id}, h \in {Held(c)} :
                /\ ended'.result.kind = "return"
                /\ out.message # "" =>
                    /\ ended'.result.value = out.message
                    /\ program = "bot2.py" =>
                            histories'[u] = DequeAppend(h, Turn("bot", out.message))
                    /\ (program = "bot.py" /\ HISTORY[u] = task[c].hist) =>
                            Stored(u)' = h \o <<Turn("bot", out.message)>>
                /\ out.message = "" => ended'.result.value \in ErrorReplies
      ]_vars

C21_ReplacementLastAfterShutdown ==
    /\ [](Ran("execv") =>
            /\ update.pc = "replaced"
            /\ Len(update.ran) >= 2
            /\ update.ran[Len(update.ran)] = "execv"
            /\ update.ran[Len(update.ran) - 1] = "shutdown")
    /\ [][update.pc = "r_exec" =>
            /\ update'.pc = "replaced"
            /\ update'.replies = update.replies
            /\ UNCHANGED <<bot2State, botState, task, started>>
         ]_vars
    /\ [][update.pc = "replaced" => UNCHANGED vars]_vars

C21_ReplacedWithCallInFlight ==
    /\ update.pc = "replaced"
    /\ Ran("shutdown")
    /\ \E c \in Slots : task[c].pc = "call1" /\ Stored(task[c].user_id) # <<>>

\* The label a turn is rendered with.
RoleLabel(role) ==
    IF role = "user" THEN Requester ELSE IF program = "bot2.py" THEN "Bot" ELSE "Jarvis"

\* C22: the prompt a process_query call takes to its first upstream call has
\* the preamble, then one line "<RoleLabel>: <text>" for every turn of the
\* history as it is stored at that moment, in the history's order, and the
\* responder marker at its end.
C22_FirstPromptRendersSnapshot ==
    [][\A c \in Slots :
        (task[c].pc # "call1" /\ task'[c].pc = "call1") =>
            \A u \in {task'[c].user_id}, p \in {task'[c].prompt} :
                /\ p.preamble
                /\ p.marker = "Jarvis:"
                /\ Len(p.lines) = Len(Stored(u)')
                /\ \A i \in 1..Len(p.lines) :
                        p.lines[i] = <<RoleLabel(Stored(u)[i].role), Stored(u)[i].content>>'
      ]_vars

\* C23: the prompt of a call's overflow retry is one line, the text this
\* call was called with under the requester's label, and the responder
\* marker.
C23_RetryPromptFromOwnTurn ==
    [][\A c \in Slots :
        (task[c].pc = "call1" /\ task'[c].pc = "call2") =>
            \A x \in {task[c].text} :
                /\ task'[c].prompt.lines = <<<<Requester, x>>>>
                /\ task'[c].last_msg = Turn("user", x)
      ]_vars

\* C24: under bot.py, when the sweeper has evicted an identity while a call
\* of it waits for an upstream call, every step of that call leaves the
\* store without a history and without a last-activity entry for the
\* identity; when a later request has given the identity a new history, the
\* steps of the old call leave that history as it is; and the call returns
\* the answer of a successful upstream call and raises only when its own
\* retry raised.
C24_EvictedSessionNotResurrected ==
    [][\A c \in Slots :
        (program = "bot.py" /\ task[c].pc \in {"call1", "call2"} /\ task'[c] # task[c]
            /\ (LAST_ACTIVE[task[c].user_id] = NoTs
                    \/ HISTORY[task[c].user_id] # task[c].hist)) =>
            \A u \in {task[c].user_id} :
                /\ HISTORY'[u] = HISTORY[u]
                /\ LAST_ACTIVE'[u] = LAST_ACTIVE[u]
                /\ Stored(u)' = Stored(u)
                /\ LAST_ACTIVE[u] = NoTs => Stored(u)' = <<>>
                /\ task'[c].pc = "idle" =>
                    /\ ended'.user_id = u
                    /\ ended'.result.kind = "raise" => ended'.second.kind = "raise"
                    /\ \A out \in {IF ended'.upstream = 2 THEN ended'.second
                                                            ELSE ended'.first} :
                            out.kind = "ok" => ended'.result = Returned(Answer(out))
      ]_vars

C24_RepliedAfterEviction ==
    /\ program = "bot.py"
    /\ ended.upstream >= 1
    /\ ended.result.kind = "return"
    /\ ended.first.kind = "ok"
    /\ HISTORY[ended.user_id] = NoObj
    /\ LAST_ACTIVE[ended.user_id] = NoTs

\* C25: under bot.py every identity that has an entry in HISTORY has an
\* entry in LAST_ACTIVE.
C25_HistoryImpliesLastActive ==
    program = "bot.py" =>
        \A u \in Users : HISTORY[u] # NoObj => LAST_ACTIVE[u] # NoTs

C25_EntryKeptThroughRetry ==
    /\ program = "bot.py"
    /\ \E c \in Slots :
        /\ task[c].pc = "call2"
        /\ HISTORY[task[c].user_id] = task[c].hist
        /\ LAST_ACTIVE[task[c].user_id] = INACTIVITY_LIMIT
    /\ \E v \in Users : lastAdmit[v] # NoTs /\ HISTORY[v] = NoObj /\ LAST_ACTIVE[v] = NoTs

\* C26: under bot.py a process_query call whose text has a help keyword,
\* when it leaves the rate limiter, stamps the identity's last activity,
\* appends its requester turn as the last turn of the history and nothing
\* after it, makes no upstream call and returns the help text; the history
\* is longer by at most one turn than before and holds at most MAX_HISTORY
\* turns.
C26_HelpAppendsOneTurnWithinBound ==
    [][\A c \in Slots :
        (program = "bot.py" /\ task[c].pc = "sleeping" /\ task'[c].pc # "sleeping"
            /\ IsHelp(task[c].text)) =>
            \A u \in {task[c].user_id}, x \in {task[c].text} : \A n \in {Len(Stored(u))} :
                /\ task'[c].pc = "idle"
                /\ ended'.user_id = u
                /\ ended'.upstream = 0
                /\ ended'.result = Returned(HelpText)
                /\ LAST_ACTIVE'[u] = 0
                /\ Last(Stored(u))' = Turn("user", x)
                /\ Len(Stored(u)') <= n + 1
                /\ Len(Stored(u)') <= MAX_HISTORY
      ]_vars

====
